---- MODULE Spec2Model ----
(***************************************************************************)
(* CosmoWeather API (api/main.py): the in-memory TTL cache, the            *)
(* /api/weather request handler that consults it around the geocoding and  *)
(* forecast upstream calls, and the /api/autocomplete handler.             *)
(*                                                                         *)
(* Conventions.  Optional[T] is a sequence of length <= 1: None is <<>>,   *)
(* a present x is <<x>>.  Text (city names, hourly_vars) is a sequence of  *)
(* one-character strings.  Coordinates are integers counting 1e-5 degrees  *)
(* (4071280 is 40.71280); the inputs avoid exact rounding ties.  A request *)
(* handler advances from one `await` of the source to the next.            *)
(***************************************************************************)
EXTENDS Integers, Sequences, FiniteSets, TLC

\* ---- bounds of the model
MaxReqs == 2
MaxEpoch == 1
MaxSkew == 1

\* ---- program constant
CACHE_TTL_SECONDS == 300

Reqs == 1..MaxReqs
NoReq == 0

\* Readings int(time.time()) may return: the start, and the seconds around
\* each multiple of the TTL after it.
ClockReadings ==
    {0} \cup {e * CACHE_TTL_SECONDS + s : e \in 1..MaxEpoch, s \in 0..MaxSkew}

None == <<>>
Some(x) == <<x>>
IsNone(o) == o = <<>>
Val(o) == o[1]

\* ---- text helpers -------------------------------------------------------

\* str.lower() on the model's alphabet
LowerChar(ch) ==
    IF ch = "P" THEN "p" ELSE IF ch = "Q" THEN "q" ELSE ch

RECURSIVE Lower(_)
\* city.lower()
Lower(s) ==
    IF s = <<>> THEN <<>> ELSE <<LowerChar(Head(s))>> \o Lower(Tail(s))

\* Python truthiness of an Optional[str]: None and "" are falsy
Truthy(o) == ~IsNone(o) /\ Val(o) # <<>>

RECURSIVE SplitComma(_)
\* s.split(",")
SplitComma(s) ==
    IF \A i \in 1..Len(s) : s[i] # ","
    THEN <<s>>
    ELSE LET i == CHOOSE j \in 1..Len(s) :
                      s[j] = "," /\ \A k \in 1..(j - 1) : s[k] # ","
         IN  <<SubSeq(s, 1, i - 1)>> \o SplitComma(SubSeq(s, i + 1, Len(s)))

RECURSIVE Strip(_)
\* v.strip()
Strip(s) ==
    IF s = <<>> THEN s
    ELSE IF Head(s) = " " THEN Strip(Tail(s))
    ELSE IF s[Len(s)] = " " THEN Strip(SubSeq(s, 1, Len(s) - 1))
    ELSE s

RECURSIVE StripNonEmpty(_)
\* [v.strip() for v in parts if v.strip()]
StripNonEmpty(parts) ==
    IF parts = <<>> THEN <<>>
    ELSE LET v == Strip(Head(parts))
         IN  (IF v = <<>> THEN <<>> ELSE <<v>>) \o StripNonEmpty(Tail(parts))

\* hourly_list of get_weather
HourlyList(hourly_vars) ==
    StripNonEmpty(SplitComma(IF IsNone(hourly_vars) THEN <<>> ELSE Val(hourly_vars)))

RECURSIVE JoinComma(_)
\* ",".join(list)
JoinComma(list) ==
    IF list = <<>> THEN <<>>
    ELSE IF Len(list) = 1 THEN Head(list)
    ELSE Head(list) \o <<",">> \o JoinComma(Tail(list))

\* ---- number formatting --------------------------------------------------

\* f"{x:.4f}": x (1e-5 degrees) rounded to a count of 1e-4 degrees
Round4(x) == IF x >= 0 THEN (x + 5) \div 10 ELSE -((5 - x) \div 10)

\* f"{x:.3f}": x rounded to a count of 1e-3 degrees
Round3(x) == IF x >= 0 THEN (x + 50) \div 100 ELSE -((50 - x) \div 100)

\* ---- cache keys ---------------------------------------------------------

\* variant: the key keeps the letter case of the city
GeoKeyRaw(city) == <<"geocode", city>>

\* f"geocode:{city.lower()}"
GeoKey(city) == <<"geocode", Lower(city)>>

\* f"forecast:{lat:.4f},{lon:.4f}:{','.join(hourly_list)}"
ForecastKey(loc, hourly_list) ==
    <<"forecast", Round4(loc.latitude), Round4(loc.longitude), JoinComma(hourly_list)>>

\* ---- the TTL cache (_cache, cache_get, cache_set) -------------------------

\* dict without key k
DictDel(c, k) == [x \in DOMAIN c \ {k} |-> c[x]]

\* dict with c[k] = e
DictPut(c, k, e) == [x \in DOMAIN c \cup {k} |-> IF x = k THEN e ELSE c[x]]

\* variant: an entry counts as expired from its expiry second on
ExpiredAtDeadline(entry, now) == entry.expires_at <= now

\* entry["expires_at"] < _now()
Expired(entry, now) == entry.expires_at < now

\* variant: cache_get returns nothing from the expiry second on
CacheGetResultUntilDeadline(c, key, now) ==
    IF key \in DOMAIN c /\ now < c[key].expires_at THEN Some(c[key].value) ELSE None

\* what cache_get(key) returns at clock reading now
CacheGetResult(c, key, now) ==
    IF key \notin DOMAIN c THEN None
    ELSE IF Expired(c[key], now) THEN None
    ELSE Some(c[key].value)

\* variant: cache_get leaves the stale entry in the dict
CacheAfterGetKeepStale(c, key, now) == c

\* variant: cache_get sweeps every expired entry out of the dict
CacheAfterGetSweep(c, key, now) ==
    [x \in {k \in DOMAIN c : c[k].expires_at >= now} |-> c[x]]

\* _cache after cache_get(key) at clock reading now
CacheAfterGet(c, key, now) ==
    IF key \in DOMAIN c /\ Expired(c[key], now) THEN DictDel(c, key) ELSE c

\* variant: cache_set keeps an entry that is already stored (setdefault)
CacheAfterSetKeepExisting(c, key, value, ttl, now) ==
    IF key \in DOMAIN c THEN c
    ELSE DictPut(c, key, [value |-> value, expires_at |-> now + ttl])

\* _cache after cache_set(key, value, ttl) at clock reading now
CacheAfterSet(c, key, value, ttl, now) ==
    DictPut(c, key, [value |-> value, expires_at |-> now + ttl])

\* ---- static weather-code table --------------------------------------------

WEATHERCODE_MAP ==
    (0 :> [desc |-> "Clear sky", icon |-> "sun"]) @@
    (1 :> [desc |-> "Mainly clear", icon |-> "sun_small_cloud"]) @@
    (2 :> [desc |-> "Partly cloudy", icon |-> "sun_behind_cloud"]) @@
    (3 :> [desc |-> "Overcast", icon |-> "cloud"]) @@
    (45 :> [desc |-> "Fog", icon |-> "fog"]) @@
    (48 :> [desc |-> "Depositing rime fog", icon |-> "fog"]) @@
    (51 :> [desc |-> "Light drizzle", icon |-> "sun_rain"]) @@
    (53 :> [desc |-> "Moderate drizzle", icon |-> "sun_rain"]) @@
    (55 :> [desc |-> "Dense drizzle", icon |-> "rain"]) @@
    (61 :> [desc |-> "Slight rain", icon |-> "rain"]) @@
    (63 :> [desc |-> "Moderate rain", icon |-> "rain"]) @@
    (65 :> [desc |-> "Heavy rain", icon |-> "thunder"]) @@
    (71 :> [desc |-> "Slight snow", icon |-> "snow_cloud"]) @@
    (73 :> [desc |-> "Moderate snow", icon |-> "snow_cloud"]) @@
    (75 :> [desc |-> "Heavy snow", icon |-> "snowflake"]) @@
    (80 :> [desc |-> "Rain showers", icon |-> "rain"]) @@
    (95 :> [desc |-> "Thunderstorm", icon |-> "thunder"])

\* variant: no synthesized description for a code outside the table
WeatherDescTableOnly(wc) ==
    IF ~IsNone(wc) /\ Val(wc) \in DOMAIN WEATHERCODE_MAP
    THEN WEATHERCODE_MAP[Val(wc)].desc
    ELSE ""

\* weather_desc for the Optional weathercode wc
WeatherDesc(wc) ==
    IF ~IsNone(wc) /\ Val(wc) \in DOMAIN WEATHERCODE_MAP
    THEN WEATHERCODE_MAP[Val(wc)].desc
    ELSE IF ~IsNone(wc) THEN "Weather code " \o ToString(Val(wc)) ELSE ""

\* weather_icon for the Optional weathercode wc
WeatherIcon(wc) ==
    IF ~IsNone(wc) /\ Val(wc) \in DOMAIN WEATHERCODE_MAP
    THEN WEATHERCODE_MAP[Val(wc)].icon
    ELSE "rainbow"

\* ---- inputs and upstream answers ------------------------------------------

\* query parameters of /api/weather
WeatherArgs(city, lat, lon, hv) ==
    [city |-> city, lat |-> lat, lon |-> lon, hourly_vars |-> hv]

NoArgs == WeatherArgs(None, None, None, None)

HvTW == <<"t", ",", "w">>
HvWT == <<"w", ",", " ", "t">>

\* /api/weather requests: none or an empty city with one coordinate missing,
\* coordinates alone, coordinates with a city, a city in two spellings
RequestInputs ==
    { WeatherArgs(None, None, None, Some(HvTW)),
      WeatherArgs(Some(<<>>), Some(1234042), None, Some(HvTW)),
      WeatherArgs(None, Some(1234042), Some(-7400602), Some(HvTW)),
      WeatherArgs(Some(<<"P">>), Some(1234044), Some(-7400604), Some(HvTW)),
      WeatherArgs(Some(<<"P">>), None, None, Some(HvTW)),
      WeatherArgs(Some(<<"p">>), None, Some(-7400602), Some(HvTW)) }

\* a geocoding candidate (an element of the provider's "results")
Candidate(name, lat, lon) ==
    [name |-> name, latitude |-> lat, longitude |-> lon,
     country |-> Some(<<"F">>), admin1 |-> None]

TopOk == Candidate(Some(<<"P">>), Some(1234042), Some(-7400602))
TopNoCoords == Candidate(None, None, Some(-7400602))

\* outcome of fetch_json(GEOCODE_URL): ok = FALSE is a raised httpx error
GeoResponses ==
    { [ok |-> FALSE, results |-> <<>>],
      [ok |-> TRUE, results |-> <<>>],
      [ok |-> TRUE, results |-> <<TopOk>>],
      [ok |-> TRUE, results |-> <<TopNoCoords>>] }

\* decoded forecast body: its optional "current_weather" section
Forecast(current) == [current_weather |-> current]
Current(wc) == [weathercode |-> wc]

ForecastPayloads ==
    { Forecast(None), Forecast(Some(Current(Some(3)))) }

\* outcome of fetch_json(FORECAST_URL): ok = FALSE is a raised httpx error
ForecastResponses ==
    {[ok |-> FALSE, json |-> Forecast(None)]}
        \cup {[ok |-> TRUE, json |-> f] : f \in ForecastPayloads}

\* ---- state ----------------------------------------------------------------

VARIABLES
    clock,      \* the reading _now() returns
    cache,      \* _cache: key -> [value, expires_at]
    lock,       \* holder of _cache_lock, NoReq when free
    req,        \* per request: the frame of its get_weather call, see NoFrame
                \* (of its autocomplete call, see NewAcFrame)
    last,       \* the latest direct cache call: operation, arguments, result
    written     \* per key: what the latest direct cache_set stored, and whether
                \* a direct cache_get has met it expired since

vars == <<clock, cache, lock, req, last, written>>

NoResponse ==
    [status |-> 0, detail |-> "", current |-> None,
     weather_desc |-> None, weather_icon |-> None]

\* raise HTTPException(status_code, detail); 500 is the framework's answer to
\* an exception no handler catches
ErrorResponse(status, detail) ==
    [status |-> status, detail |-> detail, current |-> None,
     weather_desc |-> None, weather_icon |-> None]

\* a frame of get_weather:
\*   pc          the await the handler is at ("idle" before, "done" after)
\*   args        its query parameters
\*   top         Optional top geocoding candidate
\*   location    Optional location dict
\*   forecast    Optional forecast body
\*   response    status, detail and body of the answer
\*   geoCalls    geocoding upstream calls it issued
\*   fcCalls     forecast upstream calls it issued
\*   pred        the requests that had succeeded, their forecast entry stored
\*               and unexpired, when this one started
\*   liveAtRead  its forecast cache read found a stored, unexpired entry
\*   ops         the cache calls it has executed
\*   geoAnswer   what its geocoding call ended with ("" while none has ended)
\*   geoName     Optional "name" parameter of the geocoding call it issued
\*   inCS        it is inside the `async with _cache_lock` body of a cache call
\*   after       the requests that held a fetched forecast body, not yet stored,
\*               when its own forecast call was answered (see FcAnswer)
NoFrame ==
    [pc |-> "idle", args |-> NoArgs, top |-> None, location |-> None,
     forecast |-> None, response |-> NoResponse, geoCalls |-> 0, fcCalls |-> 0,
     pred |-> {}, liveAtRead |-> FALSE, ops |-> {}, geoAnswer |-> "",
     geoName |-> None, inCS |-> FALSE, after |-> {}]

\* keys, values and TTLs of the direct cache calls
CacheKeys == {GeoKey(<<"P">>), GeoKey(<<"Q">>)}
CacheValues == ForecastPayloads
TtlInputs == {0, CACHE_TTL_SECONDS}

NoCall ==
    [op |-> "none", key |-> GeoKey(<<"P">>), value |-> Forecast(None), ttl |-> 0,
     at |-> 0, ret |-> None, had |-> None]

NeverWritten ==
    [set |-> FALSE, value |-> Forecast(None), deadline |-> 0, gone |-> FALSE]

Init ==
    /\ clock = 0
    /\ cache = <<>>
    /\ lock = NoReq
    /\ req = [r \in Reqs |-> NoFrame]
    /\ last = NoCall
    /\ written = [k \in CacheKeys |-> NeverWritten]

\* ---- /api/weather: get_weather ----------------------------------------------

\* the frame f answered with resp; its fetched bodies go out of scope
Answer(f, resp) ==
    [f EXCEPT !.pc = "done", !.response = resp, !.top = None, !.forecast = None]

\* location built from lat and lon (lines 131-138)
LatLonLocation(a) ==
    [name |-> IF Truthy(a.city)
              THEN [text |-> Val(a.city), coords |-> None]
              ELSE [text |-> <<>>,
                    coords |-> Some(<<Round3(Val(a.lat)), Round3(Val(a.lon))>>)],
     latitude |-> Val(a.lat), longitude |-> Val(a.lon),
     country |-> None, admin1 |-> None]

\* location built from the top candidate t (lines 155-167)
TopLocation(t, city) ==
    [name |-> [text |-> IF Truthy(t.name) THEN Val(t.name) ELSE city,
               coords |-> None],
     latitude |-> Val(t.latitude), longitude |-> Val(t.longitude),
     country |-> t.country, admin1 |-> t.admin1]

\* the forecast cache key of frame f, once its location is known
FKeyOf(f) == ForecastKey(Val(f.location), HourlyList(f.args.hourly_vars))

\* the geocode cache key of frame f
GKeyOf(f) == GeoKey(Val(f.args.city))

\* the steps at which a handler is in, or waits to enter, a cache call
CachePcs == {"geo_get", "geo_set", "fc_get", "fc_set"}

\* the steps at which a handler awaits the answer of an upstream call
FetchPcs == {"geo_fetch", "fc_fetch"}

\* an entry is stored under key and its expiry has not passed at reading now
Live(c, key, now) == key \in DOMAIN c /\ c[key].expires_at >= now

\* variant: a city, when given, is geocoded even with lat and lon
ValidateCityFirst(f) ==
    IF ~Truthy(f.args.city) /\ (IsNone(f.args.lat) \/ IsNone(f.args.lon))
    THEN Answer(f, ErrorResponse(400, "Provide either city or lat and lon"))
    ELSE IF Truthy(f.args.city)
    THEN [f EXCEPT !.pc = "geo_get"]
    ELSE [f EXCEPT !.pc = "fc_get", !.location = Some(LatLonLocation(f.args))]

\* variant: `city is None` in place of `not city`
ValidateNoneOnly(f) ==
    IF IsNone(f.args.city) /\ (IsNone(f.args.lat) \/ IsNone(f.args.lon))
    THEN Answer(f, ErrorResponse(400, "Provide either city or lat and lon"))
    ELSE IF ~IsNone(f.args.lat) /\ ~IsNone(f.args.lon)
    THEN [f EXCEPT !.pc = "fc_get", !.location = Some(LatLonLocation(f.args))]
    ELSE [f EXCEPT !.pc = "geo_get"]

\* lines 127-138: validation and, with lat and lon, the location
Validate(f) ==
    IF ~Truthy(f.args.city) /\ (IsNone(f.args.lat) \/ IsNone(f.args.lon))
    THEN Answer(f, ErrorResponse(400, "Provide either city or lat and lon"))
    ELSE IF ~IsNone(f.args.lat) /\ ~IsNone(f.args.lon)
    THEN [f EXCEPT !.pc = "fc_get", !.location = Some(LatLonLocation(f.args))]
    ELSE [f EXCEPT !.pc = "geo_get"]

\* lines 155-167: name, lat, lon of the top candidate, 502 without coordinates
AfterTop(f) ==
    LET t == Val(f.top)
    IN  IF IsNone(t.latitude) \/ IsNone(t.longitude)
        THEN Answer(f, ErrorResponse(502, "Upstream geocoding did not return coordinates"))
        ELSE [f EXCEPT !.pc = "fc_get",
                       !.location = Some(TopLocation(t, Val(f.args.city)))]

\* lines 190-208: the answer built from the forecast body
Finish(f) ==
    LET current == Val(f.forecast).current_weather
    IN  IF IsNone(current)
        THEN Answer(f, ErrorResponse(502, "No current weather returned by upstream API"))
        ELSE Answer(f, [status |-> 200, detail |-> "",
                        current |-> current,
                        weather_desc |-> Some(WeatherDesc(Val(current).weathercode)),
                        weather_icon |-> Some(WeatherIcon(Val(current).weathercode))])

\* lines 143-148: the cached candidate, or the geocoding call is issued
AfterGeoGet(f, cached_geo) ==
    IF ~IsNone(cached_geo)
    THEN AfterTop([f EXCEPT !.top = cached_geo])
    ELSE [f EXCEPT !.pc = "geo_fetch", !.geoCalls = @ + 1,
                   !.geoName = f.args.city]

\* variant: no `if not results` check, results[0] raises IndexError
AfterGeoFetchNoEmptyCheck(f, resp) ==
    IF ~resp.ok \/ resp.results = <<>>
    THEN Answer(f, ErrorResponse(500, "Internal Server Error"))
    ELSE [f EXCEPT !.pc = "geo_set", !.top = Some(resp.results[1])]

\* lines 148-152: fetch_json(GEOCODE_URL) returned or raised; no handler
\* catches the httpx error, the 404 detail is f"City '{city}' not found"
AfterGeoFetch(f, resp) ==
    IF ~resp.ok
    THEN Answer(f, ErrorResponse(500, "Internal Server Error"))
    ELSE IF resp.results = <<>>
    THEN Answer(f, ErrorResponse(404, "City not found"))
    ELSE [f EXCEPT !.pc = "geo_set", !.top = Some(resp.results[1])]

\* variant: single flight, a miss waits for a forecast call another request
\* has in flight for the same key
AfterFcGetSingleFlight(f, cached_forecast) ==
    IF ~IsNone(cached_forecast)
    THEN Finish([f EXCEPT !.forecast = cached_forecast])
    ELSE IF \E q \in Reqs : req[q].pc = "fc_fetch" /\ FKeyOf(req[q]) = FKeyOf(f)
    THEN [f EXCEPT !.pc = "fc_wait"]
    ELSE [f EXCEPT !.pc = "fc_fetch", !.fcCalls = @ + 1]

\* lines 183-187: the cached forecast, or the forecast call is issued
AfterFcGet(f, cached_forecast) ==
    IF ~IsNone(cached_forecast)
    THEN Finish([f EXCEPT !.forecast = cached_forecast])
    ELSE [f EXCEPT !.pc = "fc_fetch", !.fcCalls = @ + 1]

\* line 187: fetch_json(FORECAST_URL) returned or raised; no handler catches
\* the httpx error
AfterFcFetch(f, resp) ==
    IF ~resp.ok
    THEN Answer(f, ErrorResponse(500, "Internal Server Error"))
    ELSE [f EXCEPT !.pc = "fc_set", !.forecast = Some(resp.json)]

\* the request arrives in slot r with query parameters a
Start(r, a) ==
    /\ req[r].pc \in {"idle", "done"}
    /\ req' = [q \in Reqs |->
                 IF q = r
                 THEN Validate([NoFrame EXCEPT
                        !.args = a,
                        !.pred = {p \in Reqs \ {r} :
                                    /\ req[p].pc = "done"
                                    /\ req[p].response.status = 200
                                    /\ Live(cache, FKeyOf(req[p]), clock)}])
                 ELSE [req[q] EXCEPT !.pred = @ \ {r}, !.after = @ \ {r}]]
    /\ UNCHANGED <<clock, cache, lock, last, written>>

\* variant: the cache call enters its body without waiting for the lock
AcquireLockNoWait(r) ==
    /\ req[r].pc \in {"geo_get", "geo_set", "fc_get", "fc_set"}
    /\ lock # r
    /\ lock' = r
    /\ req' = [req EXCEPT ![r].inCS = TRUE]
    /\ UNCHANGED <<clock, cache, last, written>>

\* `async with _cache_lock` of cache_get / cache_set: the lock is taken.  The
\* body of the `async with` has no await, so the step that runs it also
\* releases the lock.
AcquireLock(r) ==
    /\ req[r].pc \in {"geo_get", "geo_set", "fc_get", "fc_set"}
    /\ lock = NoReq
    /\ lock' = r
    /\ req' = [req EXCEPT ![r].inCS = TRUE]
    /\ UNCHANGED <<clock, cache, last, written>>

\* variant: the geocoding call is made inside the `async with _cache_lock`
\* body, the lock is still held when the handler awaits the provider
GeoCacheGetHoldingLock(r) ==
    /\ req[r].pc = "geo_get"
    /\ lock = r
    /\ cache' = CacheAfterGet(cache, GKeyOf(req[r]), clock)
    /\ req' = [req EXCEPT ![r] =
                 AfterGeoGet([@ EXCEPT !.ops = @ \cup {"geo_get"}],
                             CacheGetResult(cache, GKeyOf(req[r]), clock))]
    /\ lock' = IF req'[r].pc = "geo_fetch" THEN r ELSE NoReq
    /\ UNCHANGED <<clock, last, written>>

\* lines 141-148: cache_get(geokey) under the lock, then up to the next await
GeoCacheGet(r) ==
    /\ req[r].pc = "geo_get"
    /\ lock = r
    /\ lock' = NoReq
    /\ cache' = CacheAfterGet(cache, GKeyOf(req[r]), clock)
    /\ req' = [req EXCEPT ![r] =
                 AfterGeoGet([@ EXCEPT !.ops = @ \cup {"geo_get"}, !.inCS = FALSE],
                             CacheGetResult(cache, GKeyOf(req[r]), clock))]
    /\ UNCHANGED <<clock, last, written>>

\* lines 148-153: the geocoding call ends
GeoRespond(r, resp) ==
    /\ req[r].pc = "geo_fetch"
    /\ req' = [req EXCEPT ![r] =
                 AfterGeoFetch([@ EXCEPT !.geoAnswer =
                                  IF ~resp.ok THEN "error"
                                  ELSE IF resp.results = <<>> THEN "empty"
                                  ELSE "found"],
                               resp)]
    /\ UNCHANGED <<clock, cache, lock, last, written>>

\* line 153: cache_set(geokey, top) under the lock, then lines 155-167
GeoCacheSet(r) ==
    /\ req[r].pc = "geo_set"
    /\ lock = r
    /\ lock' = NoReq
    /\ cache' = CacheAfterSet(cache, GKeyOf(req[r]), Val(req[r].top),
                              CACHE_TTL_SECONDS, clock)
    /\ req' = [req EXCEPT ![r] = AfterTop([@ EXCEPT !.ops = @ \cup {"geo_set"},
                                                   !.inCS = FALSE])]
    /\ UNCHANGED <<clock, last, written>>

\* lines 181-187: cache_get(cache_key) under the lock, then up to the next await
FcCacheGet(r) ==
    /\ req[r].pc = "fc_get"
    /\ lock = r
    /\ lock' = NoReq
    /\ cache' = CacheAfterGet(cache, FKeyOf(req[r]), clock)
    /\ req' = [req EXCEPT ![r] =
                 AfterFcGet([@ EXCEPT !.liveAtRead = Live(cache, FKeyOf(req[r]), clock),
                                      !.ops = @ \cup {"fc_get"},
                                      !.inCS = FALSE],
                            CacheGetResult(cache, FKeyOf(req[r]), clock))]
    /\ UNCHANGED <<clock, last, written>>

\* lines 187-188: the forecast call ends
FcRespond(r, resp) ==
    /\ req[r].pc = "fc_fetch"
    /\ req' = [req EXCEPT ![r] = AfterFcFetch(@, resp)]
    /\ UNCHANGED <<clock, cache, lock, last, written>>

\* variant: the first writer wins, a stored unexpired entry is not overwritten
FcCacheSetFirstWins(r) ==
    /\ req[r].pc = "fc_set"
    /\ lock = r
    /\ lock' = NoReq
    /\ cache' = IF Live(cache, FKeyOf(req[r]), clock)
                THEN cache
                ELSE CacheAfterSet(cache, FKeyOf(req[r]), Val(req[r].forecast),
                                   CACHE_TTL_SECONDS, clock)
    /\ req' = [req EXCEPT ![r] = Finish([@ EXCEPT !.ops = @ \cup {"fc_set"},
                                                 !.inCS = FALSE])]
    /\ UNCHANGED <<clock, last, written>>

\* line 188: cache_set(cache_key, forecast) under the lock, then lines 190-208
FcCacheSet(r) ==
    /\ req[r].pc = "fc_set"
    /\ lock = r
    /\ lock' = NoReq
    /\ cache' = CacheAfterSet(cache, FKeyOf(req[r]), Val(req[r].forecast),
                              CACHE_TTL_SECONDS, clock)
    /\ req' = [req EXCEPT ![r] = Finish([@ EXCEPT !.ops = @ \cup {"fc_set"},
                                                 !.inCS = FALSE])]
    /\ UNCHANGED <<clock, last, written>>

\* ---- the wall clock ---------------------------------------------------------

\* time passes: _now() moves on to its next reading
ClockAdvance ==
    /\ \E t \in ClockReadings :
          /\ t > clock
          /\ \A u \in ClockReadings : u > clock => t <= u
          /\ clock' = t
    /\ UNCHANGED <<cache, lock, req, last, written>>

\* the wall clock is set back: _now() returns an earlier reading
ClockStepBack ==
    /\ \E t \in ClockReadings : t < clock /\ clock' = t
    /\ UNCHANGED <<cache, lock, req, last, written>>

Next ==
    \/ \E r \in Reqs, a \in RequestInputs : Start(r, a)
    \/ \E r \in Reqs : AcquireLock(r)
    \/ \E r \in Reqs : GeoCacheGet(r)
    \/ \E r \in Reqs, resp \in GeoResponses : GeoRespond(r, resp)
    \/ \E r \in Reqs : GeoCacheSet(r)
    \/ \E r \in Reqs : FcCacheGet(r)
    \/ \E r \in Reqs, resp \in ForecastResponses : FcRespond(r, resp)
    \/ \E r \in Reqs : FcCacheSet(r)
    \/ ClockAdvance
    \/ ClockStepBack

\* concurrent /api/weather requests over the shared cache
Spec == Init /\ [][Next]_vars

\* ---- requests that differ in the order of their hourly variables ------------

OrderInputs ==
    { WeatherArgs(None, Some(1234042), Some(-7400602), Some(HvTW)),
      WeatherArgs(None, Some(1234044), Some(-7400604), Some(HvWT)) }

NextOrder ==
    \/ \E r \in Reqs, a \in OrderInputs : Start(r, a)
    \/ \E r \in Reqs : AcquireLock(r)
    \/ \E r \in Reqs : FcCacheGet(r)
    \/ \E r \in Reqs, resp \in ForecastResponses : FcRespond(r, resp)
    \/ \E r \in Reqs : FcCacheSet(r)
    \/ ClockAdvance
    \/ ClockStepBack

OrderSpec == Init /\ [][NextOrder]_vars

\* ---- the cache called directly ----------------------------------------------

\* await cache_set(k, v, ttl) with the lock free
CacheSetCall(k, v, ttl) ==
    /\ lock = NoReq
    /\ cache' = CacheAfterSet(cache, k, v, ttl, clock)
    /\ last' = [op |-> "set", key |-> k, value |-> v, ttl |-> ttl, at |-> clock,
                ret |-> None,
                had |-> IF k \in DOMAIN cache THEN Some(cache[k]) ELSE None]
    /\ written' = [written EXCEPT ![k] =
                     [set |-> TRUE, value |-> v, deadline |-> clock + ttl,
                      gone |-> FALSE]]
    /\ UNCHANGED <<clock, lock, req>>

\* await cache_get(k) with the lock free
CacheGetCall(k) ==
    /\ lock = NoReq
    /\ cache' = CacheAfterGet(cache, k, clock)
    /\ last' = [op |-> "get", key |-> k, value |-> Forecast(None), ttl |-> 0,
                at |-> clock, ret |-> CacheGetResult(cache, k, clock),
                had |-> IF k \in DOMAIN cache THEN Some(cache[k]) ELSE None]
    /\ written' = [written EXCEPT ![k].gone =
                     @ \/ (written[k].set /\ clock > written[k].deadline)]
    /\ UNCHANGED <<clock, lock, req>>

NextCache ==
    \/ \E k \in CacheKeys, v \in CacheValues, ttl \in TtlInputs : CacheSetCall(k, v, ttl)
    \/ \E k \in CacheKeys : CacheGetCall(k)
    \/ ClockAdvance
    \/ ClockStepBack

CacheSpec == Init /\ [][NextCache]_vars

\* ---- cancellation ---------------------------------------------------------------

\* no answer is sent: CancelledError leaves get_weather
Cancelled == ErrorResponse(0, "cancelled")

\* variant: the cancellation also reaches a handler that was just granted the
\* lock, and nothing releases it
CancelWhileGranted(r) ==
    /\ req[r].pc \in CachePcs \cup FetchPcs
    /\ req' = [req EXCEPT ![r] = Answer(@, Cancelled)]
    /\ UNCHANGED <<clock, cache, lock, last, written>>

\* the transport cancels request r at an await: waiting to enter a cache call
\* (lines 27, 39) or waiting for an upstream answer (line 83).  CancelledError
\* is raised there and unwinds get_weather; the `async with` blocks it passes
\* hold no lock.
Cancel(r) ==
    /\ req[r].pc \in CachePcs \cup FetchPcs
    /\ ~req[r].inCS
    /\ req' = [req EXCEPT ![r] = Answer(@, Cancelled)]
    /\ UNCHANGED <<clock, cache, lock, last, written>>

CancelInputs ==
    { WeatherArgs(Some(<<"P">>), None, None, Some(HvTW)),
      WeatherArgs(Some(<<"p">>), None, Some(-7400602), Some(HvTW)) }

NextCancel ==
    \/ \E r \in Reqs, a \in CancelInputs : Start(r, a)
    \/ \E r \in Reqs : AcquireLock(r)
    \/ \E r \in Reqs : GeoCacheGet(r)
    \/ \E r \in Reqs, resp \in GeoResponses : GeoRespond(r, resp)
    \/ \E r \in Reqs : GeoCacheSet(r)
    \/ \E r \in Reqs : FcCacheGet(r)
    \/ \E r \in Reqs, resp \in ForecastResponses : FcRespond(r, resp)
    \/ \E r \in Reqs : FcCacheSet(r)
    \/ \E r \in Reqs : Cancel(r)
    \/ ClockAdvance
    \/ ClockStepBack

\* concurrent /api/weather requests by city, any of which may be cancelled
CancelSpec == Init /\ [][NextCancel]_vars

\* ---- concurrent fetches of one forecast key --------------------------------------

\* two coordinates that agree to 4 decimals
RaceInputs ==
    { WeatherArgs(None, Some(1234042), Some(-7400602), Some(HvTW)),
      WeatherArgs(None, Some(1234044), Some(-7400604), Some(HvTW)) }

\* lines 187-188: the forecast call ends, as FcRespond; the frame also notes
\* which requests for the same key hold a fetched body they have yet to store
FcAnswer(r, resp) ==
    /\ req[r].pc = "fc_fetch"
    /\ req' = [req EXCEPT ![r] =
                 AfterFcFetch([@ EXCEPT !.after =
                                 {q \in Reqs \ {r} :
                                    /\ req[q].pc = "fc_set"
                                    /\ FKeyOf(req[q]) = FKeyOf(req[r])}],
                              resp)]
    /\ UNCHANGED <<clock, cache, lock, last, written>>

NextRace ==
    \/ \E r \in Reqs, a \in RaceInputs : Start(r, a)
    \/ \E r \in Reqs : AcquireLock(r)
    \/ \E r \in Reqs : FcCacheGet(r)
    \/ \E r \in Reqs, resp \in ForecastResponses : FcAnswer(r, resp)
    \/ \E r \in Reqs : FcCacheSet(r)
    \/ ClockAdvance
    \/ ClockStepBack

RaceSpec == Init /\ [][NextRace]_vars

\* ---- scheduling ------------------------------------------------------------------

LiveInputs ==
    { WeatherArgs(Some(<<"P">>), None, None, Some(HvTW)) }

\* requests for one city at one clock reading: no entry expires
NextLive ==
    \/ \E r \in Reqs, a \in LiveInputs : Start(r, a)
    \/ \E r \in Reqs : AcquireLock(r)
    \/ \E r \in Reqs : GeoCacheGet(r)
    \/ \E r \in Reqs, resp \in GeoResponses : GeoRespond(r, resp)
    \/ \E r \in Reqs : GeoCacheSet(r)
    \/ \E r \in Reqs : FcCacheGet(r)
    \/ \E r \in Reqs, resp \in ForecastResponses : FcRespond(r, resp)
    \/ \E r \in Reqs : FcCacheSet(r)

\* the steps of r's cache calls: taking the lock, running the body
CacheStep(r) ==
    \/ AcquireLock(r)
    \/ GeoCacheGet(r) \/ GeoCacheSet(r)
    \/ FcCacheGet(r) \/ FcCacheSet(r)

\* what the event loop guarantees: a handler at a cache call that can run
\* again and again (the lock is free, or its own) does run; asyncio.Lock
\* wakes its waiters in turn and the loop runs every ready task.  Nothing is
\* assumed of the providers (an upstream call may never be answered) nor of
\* the arrival of requests.
Scheduling == \A r \in Reqs : SF_vars(CacheStep(r))

LiveSpec == Init /\ [][NextLive]_vars /\ Scheduling

\* ---- /api/autocomplete: autocomplete ------------------------------------------------

\* query parameters of /api/autocomplete
AcArgs(query, limit) == [query |-> query, limit |-> limit]

\* f"autocomplete:{query.lower()}:{limit}"
AcKey(query, limit) == <<"autocomplete", Lower(query), limit>>

\* one element of `simplified` (lines 102-108)
SimplifiedEntry(c) ==
    [name |-> c.name, country |-> c.country, admin1 |-> c.admin1,
     latitude |-> c.latitude, longitude |-> c.longitude]

RECURSIVE Simplified(_)
\* the list `simplified` built from results (lines 100-108)
Simplified(results) ==
    IF results = <<>> THEN <<>>
    ELSE <<SimplifiedEntry(Head(results))>> \o Simplified(Tail(results))

\* a frame of autocomplete:
\*   pc          the await the handler is at ("done" after)
\*   args        its query parameters
\*   simplified  Optional list built from the provider's answer
\*   status      status of the answer (0 while there is none)
\*   body        Optional list the handler returned
\*   calls       geocoding upstream calls it issued
\*   ops         the cache calls it has executed
NewAcFrame(a) ==
    [pc |-> "ac_get", args |-> a, simplified |-> None, status |-> 0,
     body |-> None, calls |-> 0, ops |-> {}]

\* the handler returned the list, or raised
AcAnswer(f, status, body) ==
    [f EXCEPT !.pc = "done", !.status = status, !.body = body, !.simplified = None]

AcKeyOf(f) == AcKey(f.args.query, f.args.limit)

\* Query(..., min_length=1): the framework answers 422 to an empty query,
\* the handler does not run
AcValidate(f) ==
    IF f.args.query = <<>> THEN AcAnswer(f, 422, None) ELSE f

\* variant: `if cached:` in place of `if cached is not None`
AfterAcGetTruthy(f, cached) ==
    IF ~IsNone(cached) /\ Val(cached) # <<>>
    THEN AcAnswer(f, 200, cached)
    ELSE [f EXCEPT !.pc = "ac_fetch", !.calls = @ + 1]

\* lines 93-98: the cached list, or the geocoding call is issued
AfterAcGet(f, cached) ==
    IF ~IsNone(cached)
    THEN AcAnswer(f, 200, cached)
    ELSE [f EXCEPT !.pc = "ac_fetch", !.calls = @ + 1]

\* lines 98-108: fetch_json(GEOCODE_URL) returned or raised; no handler
\* catches the httpx error
AfterAcFetch(f, resp) ==
    IF ~resp.ok
    THEN AcAnswer(f, 500, None)
    ELSE [f EXCEPT !.pc = "ac_set", !.simplified = Some(Simplified(resp.results))]

\* an autocomplete request arrives in slot r with query parameters a
AcStart(r, a) ==
    /\ req[r].pc \in {"idle", "done"}
    /\ req' = [req EXCEPT ![r] = AcValidate(NewAcFrame(a))]
    /\ UNCHANGED <<clock, cache, lock, last, written>>

\* lines 91-98: await cache_get(key), the lock free, then up to the next await
AcCacheGet(r) ==
    /\ req[r].pc = "ac_get"
    /\ lock = NoReq
    /\ cache' = CacheAfterGet(cache, AcKeyOf(req[r]), clock)
    /\ req' = [req EXCEPT ![r] =
                 AfterAcGet([@ EXCEPT !.ops = @ \cup {"ac_get"}],
                            CacheGetResult(cache, AcKeyOf(req[r]), clock))]
    /\ UNCHANGED <<clock, lock, last, written>>

\* lines 98-108: the geocoding call ends
AcRespond(r, resp) ==
    /\ req[r].pc = "ac_fetch"
    /\ req' = [req EXCEPT ![r] = AfterAcFetch(@, resp)]
    /\ UNCHANGED <<clock, cache, lock, last, written>>

\* lines 109-110: await cache_set(key, simplified), the lock free, and return
AcCacheSet(r) ==
    /\ req[r].pc = "ac_set"
    /\ lock = NoReq
    /\ cache' = CacheAfterSet(cache, AcKeyOf(req[r]), Val(req[r].simplified),
                              CACHE_TTL_SECONDS, clock)
    /\ req' = [req EXCEPT ![r] =
                 AcAnswer([@ EXCEPT !.ops = @ \cup {"ac_set"}], 200, @.simplified)]
    /\ UNCHANGED <<clock, lock, last, written>>

\* a query in two spellings, with the default limit and another; an empty query
AcInputs ==
    { AcArgs(<<"P">>, 6), AcArgs(<<"p">>, 6), AcArgs(<<"P">>, 3), AcArgs(<<>>, 6) }

NextAuto ==
    \/ \E r \in Reqs, a \in AcInputs : AcStart(r, a)
    \/ \E r \in Reqs : AcCacheGet(r)
    \/ \E r \in Reqs, resp \in GeoResponses : AcRespond(r, resp)
    \/ \E r \in Reqs : AcCacheSet(r)
    \/ ClockAdvance
    \/ ClockStepBack

\* concurrent /api/autocomplete requests over the shared cache
AutoSpec == Init /\ [][NextAuto]_vars

\* ---- forecasts with every kind of weather code --------------------------------

AnnotInputs ==
    { WeatherArgs(None, Some(1234042), Some(-7400602), Some(HvTW)) }

\* current conditions with a code of the table (0, 3), a code outside it (999)
\* and no code field
AnnotPayloads ==
    { Forecast(Some(Current(Some(0)))), Forecast(Some(Current(Some(3)))),
      Forecast(Some(Current(Some(999)))), Forecast(Some(Current(None))) }

AnnotResponses == {[ok |-> TRUE, json |-> f] : f \in AnnotPayloads}

NextAnnot ==
    \/ \E r \in Reqs, a \in AnnotInputs : Start(r, a)
    \/ \E r \in Reqs : AcquireLock(r)
    \/ \E r \in Reqs : FcCacheGet(r)
    \/ \E r \in Reqs, resp \in AnnotResponses : FcRespond(r, resp)
    \/ \E r \in Reqs : FcCacheSet(r)
    \/ ClockAdvance
    \/ ClockStepBack

AnnotSpec == Init /\ [][NextAnnot]_vars

\* ---- properties -------------------------------------------------------------

HasLatLon(a) == ~IsNone(a.lat) /\ ~IsNone(a.lon)
Invalid(a) == ~Truthy(a.city) /\ ~HasLatLon(a)
Started(r) == req[r].pc # "idle"
Done(r) == req[r].pc = "done"
Status(r) == req[r].response.status
NoCurrentDetail == "No current weather returned by upstream API"
NoCoordsDetail == "Upstream geocoding did not return coordinates"
Range(seq) == {seq[i] : i \in 1..Len(seq)}

\* C1: a request that fails at the forecast stage (its location is known and
\* its answer is not 200) has executed no cache_set of its forecast key, and
\* an answer "no current weather" always comes from a fresh upstream call,
\* never from the cache.
C1_FailedForecastNotCached ==
    \A r \in Reqs :
        /\ (Done(r) /\ req[r].location # None /\ Status(r) # 200)
              => "fc_set" \notin req[r].ops
        /\ (Done(r) /\ req[r].response.detail = NoCurrentDetail)
              => req[r].fcCalls = 1

\* C2: the geocode entries of the cache all have both coordinates; a request
\* answered 502 for missing coordinates has executed no cache_set of its
\* geocode key and got its candidate from a fresh geocoding call.
C2_GeocodeStoredOnlyWithCoordinates ==
    /\ \A k \in DOMAIN cache :
          k[1] = "geocode"
            => ~IsNone(cache[k].value.latitude) /\ ~IsNone(cache[k].value.longitude)
    /\ \A r \in Reqs :
          (Done(r) /\ req[r].response.detail = NoCoordsDetail)
            => "geo_set" \notin req[r].ops /\ req[r].geoCalls = 1

\* C3: a request that passes validation ends with 200, 404 or 502, and with
\* 200 or 502 when it gave lat and lon.
C3_UpstreamFailureIs502 ==
    \A r \in Reqs :
        (Done(r) /\ ~Invalid(req[r].args))
          => /\ Status(r) \in {200, 404, 502}
             /\ HasLatLon(req[r].args) => Status(r) \in {200, 502}

\* the forecast calls issued by q and by r together
ForecastCalls(q, r) == req[q].fcCalls + req[r].fcCalls

\* r has read the forecast key that the earlier, successful q used
ReadSameKeyAfter(q, r) ==
    /\ q \in req[r].pred
    /\ "fc_get" \in req[r].ops
    /\ FKeyOf(req[r]) = FKeyOf(req[q])

\* C4 as stated: q succeeded, r started afterwards while q's forecast entry was
\* stored and unexpired, both use one forecast key: at most one forecast call.
C4_OneCallWhenStartedWithinTtl ==
    \A r \in Reqs : \A q \in Reqs :
        ReadSameKeyAfter(q, r) => ForecastCalls(q, r) <= 1

\* C4 amended: as above, and r's cache_get of the forecast key ran while the
\* entry was stored with expires_at >= the clock reading of that read: at most
\* one forecast call.
C4_OneCallWhenReadWithinTtl ==
    \A r \in Reqs : \A q \in Reqs :
        (ReadSameKeyAfter(q, r) /\ req[r].liveAtRead) => ForecastCalls(q, r) <= 1

C4_Witness ==
    \E r \in Reqs : \E q \in Reqs :
        /\ ReadSameKeyAfter(q, r) /\ req[r].liveAtRead
        /\ Done(r) /\ Status(r) = 200
        /\ req[q].fcCalls = 1 /\ req[r].fcCalls = 0

\* C5: two requests whose coordinates agree to 4 decimals and whose hourly
\* variables are the same set have the same forecast cache key.
C5_KeyIgnoresVariableOrder ==
    \A r \in Reqs : \A q \in Reqs :
        ( /\ req[r].location # None /\ req[q].location # None
          /\ Round4(Val(req[r].location).latitude) = Round4(Val(req[q].location).latitude)
          /\ Round4(Val(req[r].location).longitude) = Round4(Val(req[q].location).longitude)
          /\ Range(HourlyList(req[r].args.hourly_vars))
               = Range(HourlyList(req[q].args.hourly_vars)) )
          => FKeyOf(req[r]) = FKeyOf(req[q])

\* C6: a cache_get(k) returns the value of the latest cache_set(k) when its
\* clock reading is within that set's reading + ttl and no cache_get(k) has met
\* the entry expired since; a cache_get(k) past reading + ttl returns absent and
\* leaves k out of the store; from then until the next cache_set(k), k stays
\* out of the store and every cache_get(k) returns absent, whatever the clock.
C6_GetWithinTtlElseGone ==
    /\ \A k \in CacheKeys : written[k].gone => k \notin DOMAIN cache
    /\ last.op = "get" =>
         LET w == written[last.key]
         IN  /\ (w.set /\ ~w.gone /\ last.at <= w.deadline) => last.ret = Some(w.value)
             /\ (w.set /\ last.at > w.deadline)
                   => last.ret = None /\ last.key \notin DOMAIN cache
             /\ w.gone => last.ret = None
             /\ ~w.set => last.ret = None

\* a cache_get after the eviction, the clock set back inside the TTL: absent
C6_Witness ==
    /\ last.op = "get"
    /\ written[last.key].gone
    /\ last.at <= written[last.key].deadline
    /\ last.ret = None

\* C7: right after cache_set(k, v2, ttl) the store holds, under k, v2 with
\* expiry = the clock reading of that set + ttl, whatever was stored before;
\* a cache_get(k) that returns a value returns the latest one set.
C7_SetOverwrites ==
    /\ last.op = "set" =>
         /\ last.key \in DOMAIN cache
         /\ cache[last.key] = [value |-> last.value, expires_at |-> last.at + last.ttl]
    /\ (last.op = "get" /\ last.ret # None) => last.ret = Some(written[last.key].value)

\* a set over a stored entry with another value and a later expiry
C7_Witness ==
    /\ last.op = "set"
    /\ last.had # None
    /\ Val(last.had).value # last.value
    /\ Val(last.had).expires_at > last.at + last.ttl

\* C8: a request with lat and lon has a location with exactly those
\* coordinates, has issued no geocoding call, has executed no cache call on a
\* geocode key and is never at a step of the geocoding branch.
C8_LatLonSkipsGeocoding ==
    \A r \in Reqs :
        (Started(r) /\ HasLatLon(req[r].args))
          => /\ req[r].location # None
             /\ Val(req[r].location).latitude = Val(req[r].args.lat)
             /\ Val(req[r].location).longitude = Val(req[r].args.lon)
             /\ req[r].geoCalls = 0
             /\ req[r].ops \cap {"geo_get", "geo_set"} = {}
             /\ req[r].pc \notin {"geo_get", "geo_fetch", "geo_set"}

\* answered with lat, lon and a city whose geocode entry is stored and unexpired
C8_Witness ==
    \E r \in Reqs :
        /\ Done(r) /\ Status(r) = 200
        /\ HasLatLon(req[r].args) /\ Truthy(req[r].args.city)
        /\ Live(cache, GKeyOf(req[r]), clock)

\* C9: a request with no city (absent or empty) and without both lat and lon
\* is answered 400 at once: it has executed no cache call, holds no lock and
\* has issued no upstream call.
C9_InvalidRequestTouchesNothing ==
    \A r \in Reqs :
        (Started(r) /\ Invalid(req[r].args))
          => /\ Done(r) /\ Status(r) = 400
             /\ req[r].ops = {}
             /\ lock # r
             /\ req[r].geoCalls = 0 /\ req[r].fcCalls = 0

\* both kinds of invalid request answered 400 beside a non-empty cache
C9_Witness ==
    \E r \in Reqs : \E q \in Reqs :
        /\ Status(r) = 400 /\ req[r].args.city = None
        /\ Status(q) = 400 /\ req[q].args.city = Some(<<>>)
        /\ DOMAIN cache # {}

\* C10: a request whose geocoding call returned zero candidates is answered
\* 404, and a request answered 404 has executed no cache_set, only the
\* cache_get of its geocode key, has issued one geocoding call and no
\* forecast call.
C10_NotFoundWritesNothing ==
    \A r \in Reqs :
        /\ (Done(r) /\ req[r].geoAnswer = "empty") => Status(r) = 404
        /\ (Done(r) /\ Status(r) = 404)
             => /\ req[r].ops = {"geo_get"}
                /\ req[r].geoCalls = 1 /\ req[r].fcCalls = 0
                /\ req[r].location = None

\* two requests for one city, both answered 404 by their own geocoding call
C10_Witness ==
    \E r \in Reqs : \E q \in Reqs :
        /\ r # q
        /\ Status(r) = 404 /\ Status(q) = 404
        /\ GKeyOf(req[r]) = GKeyOf(req[q])
        /\ req[r].geoCalls = 1 /\ req[q].geoCalls = 1
        /\ DOMAIN cache = {}

\* the weathercode of the current conditions r answered with
CodeOf(r) == Val(req[r].response.current).weathercode

\* C11: a request answered 200 carries, for a code of the static table, that
\* entry's description and icon (0: "Clear sky", 3: "Overcast"); for a code
\* outside the table "Weather code <code>" and the fallback icon; for a missing
\* code the empty description and the fallback icon; two requests answered with
\* the same current conditions carry the same description and icon, whether
\* the forecast was read from the cache or fetched.
C11_AnnotationTotal ==
    /\ \A r \in Reqs :
          (Done(r) /\ Status(r) = 200)
            => /\ req[r].response.weather_desc # None
               /\ req[r].response.weather_icon # None
               /\ CodeOf(r) = Some(0)
                     => /\ req[r].response.weather_desc = Some("Clear sky")
                        /\ req[r].response.weather_icon = Some("sun")
               /\ CodeOf(r) = Some(3)
                     => /\ req[r].response.weather_desc = Some("Overcast")
                        /\ req[r].response.weather_icon = Some("cloud")
               /\ CodeOf(r) = Some(999)
                     => /\ req[r].response.weather_desc = Some("Weather code 999")
                        /\ req[r].response.weather_icon = Some("rainbow")
               /\ CodeOf(r) = None
                     => /\ req[r].response.weather_desc = Some("")
                        /\ req[r].response.weather_icon = Some("rainbow")
    /\ \A r \in Reqs : \A q \in Reqs :
          ( /\ Done(r) /\ Status(r) = 200 /\ Done(q) /\ Status(q) = 200
            /\ req[r].response.current = req[q].response.current )
            => /\ req[r].response.weather_desc = req[q].response.weather_desc
               /\ req[r].response.weather_icon = req[q].response.weather_icon

\* a code outside the table, once fetched and once read from the cache
C11_Witness ==
    \E r \in Reqs : \E q \in Reqs :
        /\ Done(r) /\ Status(r) = 200 /\ req[r].fcCalls = 1
        /\ Done(q) /\ Status(q) = 200 /\ req[q].fcCalls = 0
        /\ "fc_get" \in req[q].ops
        /\ CodeOf(r) = Some(999) /\ CodeOf(q) = Some(999)
        /\ req[q].response.weather_desc = Some("Weather code 999")

\* the handlers inside the body of a cache call
InCriticalSection == {r \in Reqs : req[r].inCS}

\* every stored entry has its value and its expiry
EntriesComplete ==
    \A k \in DOMAIN cache : DOMAIN cache[k] = {"value", "expires_at"}

\* C12: at most one handler is inside the body of a cache call, and it is the
\* holder of the lock, at a cache call; every stored entry has both its value
\* and its expiry; the cache changes, and a handler's cache call is executed,
\* only in a step of the handler that holds the lock.
C12_CacheAccessSerialized ==
    /\ [](Cardinality(InCriticalSection) <= 1)
    /\ [](\A r \in Reqs : req[r].inCS <=> lock = r)
    /\ [](\A r \in Reqs : req[r].inCS => req[r].pc \in CachePcs)
    /\ []EntriesComplete
    /\ [][ /\ cache' # cache => lock # NoReq /\ req[lock].inCS /\ lock' = NoReq
           /\ \A r \in Reqs :
                 (req'[r].ops # req[r].ops /\ req'[r].ops # {})
                   => req[r].inCS /\ lock = r ]_vars

\* one handler inside a cache call, the other made to wait at its own, beside
\* a stored entry
C12_Witness ==
    \E r \in Reqs : \E q \in Reqs :
        /\ r # q
        /\ req[r].inCS /\ lock = r
        /\ req[q].pc \in CachePcs /\ ~req[q].inCS
        /\ DOMAIN cache # {}

WasCancelled(r) == req[r].response = Cancelled

\* C13: the lock is held only by a handler that is inside a cache call, never
\* by a cancelled one; the step that cancels a request changes neither the
\* cache nor the lock; the cache changes only in the cache call of a handler that
\* is not cancelled; every stored entry has its value and its expiry; an entry
\* leaves the store only once expired, whoever wrote it.
C13_CancellationKeepsCache ==
    /\ [](\A r \in Reqs : lock = r => req[r].pc \in CachePcs /\ req[r].inCS)
    /\ [](\A r \in Reqs : WasCancelled(r) => Done(r) /\ lock # r)
    /\ []EntriesComplete
    /\ [][ /\ \A r \in Reqs :
                 (~WasCancelled(r) /\ req'[r].response = Cancelled)
                   => cache' = cache /\ lock' = lock /\ req'[r].ops = req[r].ops
           /\ cache' # cache
                 => lock # NoReq /\ req[lock].pc \in CachePcs /\ ~WasCancelled(lock)
           /\ \A k \in DOMAIN cache :
                 k \in DOMAIN cache' \/ cache[k].expires_at < clock ]_vars

\* r stored the candidate and was cancelled during its forecast call, having
\* written no forecast entry; q then resolved the city from r's entry
C13_Witness ==
    \E r \in Reqs : \E q \in Reqs :
        /\ r # q
        /\ WasCancelled(r) /\ "geo_set" \in req[r].ops
        /\ req[r].fcCalls = 1 /\ "fc_set" \notin req[r].ops
        /\ lock = NoReq
        /\ DOMAIN cache = {GKeyOf(req[r])}
        /\ Live(cache, GKeyOf(req[r]), clock)
        /\ req[q].pc = "fc_fetch" /\ req[q].geoCalls = 0
        /\ req[q].top = Some(cache[GKeyOf(req[r])].value)

\* r leaves the body of its cache call at step pc in this step
Executes(r, pc) == req[r].pc = pc /\ req[r].inCS /\ ~req'[r].inCS

\* C14: whether a request issues its upstream call is decided by the cache
\* alone: the cache_get of the forecast key is followed by a forecast call
\* exactly when no unexpired entry is stored under the key, and the cache_get of
\* the geocode key by a geocoding call exactly when no unexpired entry is stored
\* under it, whatever calls other requests have in flight.
C14_NoSingleFlight ==
    [][\A r \in Reqs :
         /\ Executes(r, "fc_get")
               => ( (req'[r].pc = "fc_fetch" /\ req'[r].fcCalls = req[r].fcCalls + 1)
                      <=> ~Live(cache, FKeyOf(req[r]), clock) )
         /\ Executes(r, "geo_get")
               => ( (req'[r].pc = "geo_fetch" /\ req'[r].geoCalls = req[r].geoCalls + 1)
                      <=> ~Live(cache, GKeyOf(req[r]), clock) )]_vars

\* two requests for one city, each having issued its own geocoding call, both
\* with a forecast call in flight for the same key, no forecast entry stored
C14_Witness ==
    \E r \in Reqs : \E q \in Reqs :
        /\ r # q
        /\ req[r].pc = "fc_fetch" /\ req[q].pc = "fc_fetch"
        /\ FKeyOf(req[r]) = FKeyOf(req[q])
        /\ req[r].fcCalls = 1 /\ req[q].fcCalls = 1
        /\ req[r].geoCalls = 1 /\ req[q].geoCalls = 1
        /\ GKeyOf(req[r]) = GKeyOf(req[q])
        /\ DOMAIN cache = {GKeyOf(req[r])}
        /\ clock = 0 /\ cache[GKeyOf(req[r])].expires_at = CACHE_TTL_SECONDS

\* the city text of r's request
CityOf(r) == Val(req[r].args.city)

\* C15: a geocoding call carries the city text as the request gave it; and when
\* a request executes the cache_get of its geocode key while the entry that a
\* finished request stored for a city differing at most in letter case is
\* unexpired, it issues no geocoding call and takes that entry's candidate.
C15_OnlyKeyNormalized ==
    /\ [](\A r \in Reqs :
            /\ req[r].geoCalls = 1 => req[r].geoName = req[r].args.city
            /\ req[r].geoCalls = 0 => req[r].geoName = None)
    /\ [][\A r \in Reqs : \A q \in Reqs :
             ( /\ r # q
               /\ Executes(r, "geo_get")
               /\ Done(q) /\ "geo_set" \in req[q].ops
               /\ Lower(CityOf(r)) = Lower(CityOf(q))
               /\ Live(cache, GKeyOf(req[q]), clock) )
               => /\ req'[r].geoCalls = 0
                  /\ \/ /\ req'[r].pc = "fc_get"
                        /\ req'[r].top = Some(cache[GKeyOf(req[q])].value)
                     \/ /\ req'[r].pc = "done"
                        /\ req'[r].response.detail = NoCoordsDetail
                        /\ \/ IsNone(cache[GKeyOf(req[q])].value.latitude)
                           \/ IsNone(cache[GKeyOf(req[q])].value.longitude)]_vars

\* "P" was geocoded and answered; "p", started afterwards, resolved from the
\* entry stored for "P" with no geocoding call
C15_Witness ==
    \E r \in Reqs : \E q \in Reqs :
        /\ q \in req[r].pred
        /\ req[q].geoCalls = 1 /\ "geo_set" \in req[q].ops
        /\ req[q].geoName = Some(<<"P">>)
        /\ req[r].args.city = Some(<<"p">>)
        /\ req[r].pc = "fc_get" /\ "geo_get" \in req[r].ops
        /\ req[r].geoCalls = 0
        /\ DOMAIN cache = {<<"geocode", <<"p">>>>, FKeyOf(req[r])}
        /\ req[r].top = Some(cache[<<"geocode", <<"p">>>>].value)

\* key k holds the same entry, or none, before and after the step
SameEntry(k) ==
    /\ k \in DOMAIN cache <=> k \in DOMAIN cache'
    /\ k \in DOMAIN cache => cache'[k] = cache[k]

\* C16: a cache_get(k) or cache_set(k, ...) leaves the entry of every other
\* key as it is; a key leaves the store only in a cache_get of that key at a
\* clock reading past its expiry; a cache_set removes no key.
C16_EvictionOnlyByOwnExpiredGet ==
    [][ /\ \A k \in CacheKeys : k # last'.key => SameEntry(k)
        /\ last' = last => cache' = cache
        /\ \A k \in DOMAIN cache \ DOMAIN cache' :
              /\ last'.op = "get" /\ last'.key = k /\ last'.at = clock
              /\ cache[k].expires_at < clock
        /\ last'.op = "set" => DOMAIN cache \subseteq DOMAIN cache' ]_vars

\* every key is stored, one of them expired, right after a cache_get of another
\* key that returned its value
C16_Witness ==
    /\ DOMAIN cache = CacheKeys
    /\ last.op = "get" /\ last.at = clock /\ last.ret # None
    /\ \E k \in CacheKeys : k # last.key /\ cache[k].expires_at < clock

\* C17: clock readings and expiries are whole seconds; cache_set(k, v, ttl) at
\* reading t stores expiry t + ttl; a cache_get(k) that finds an entry returns
\* its value and keeps it when the reading is <= the expiry, and returns absent
\* and removes it only when the reading is > the expiry.
C17_StrictExpiry ==
    /\ clock \in Nat
    /\ \A k \in DOMAIN cache : cache[k].expires_at \in Nat
    /\ last.op = "set" => cache[last.key].expires_at = last.at + last.ttl
    /\ (last.op = "get" /\ last.had # None) =>
          LET e == Val(last.had)
          IN  /\ last.at <= e.expires_at
                    => /\ last.ret = Some(e.value)
                       /\ last.key \in DOMAIN cache /\ cache[last.key] = e
              /\ last.at > e.expires_at
                    => last.ret = None /\ last.key \notin DOMAIN cache

\* a cache_get at exactly the expiry second returned the value; the reading is
\* past the first TTL, so the entry was set with ttl = 0 in this same second
C17_Witness ==
    /\ last.op = "get" /\ last.had # None
    /\ last.at = Val(last.had).expires_at
    /\ last.at > CACHE_TTL_SECONDS
    /\ written[last.key].deadline = last.at
    /\ last.ret = Some(written[last.key].value)

\* the forecast body the finished request r worked with
BodyOf(r) == Forecast(req[r].response.current)

C19_LockNotHeldAcrossUpstream ==
    /\ [](\A r \in Reqs : req[r].pc \in FetchPcs => lock # r /\ ~req[r].inCS)
    /\ [](\A r \in Reqs : lock = r => req[r].pc \in CachePcs)
    /\ \A r \in Reqs : (req[r].pc \in CachePcs) ~> (req[r].pc \notin CachePcs)

\* q still awaits the geocoding provider; r, started beside it, has executed
\* all four of its cache calls and is answered
C19_Witness ==
    \E r \in Reqs : \E q \in Reqs :
        /\ r # q
        /\ req[q].pc = "geo_fetch"
        /\ Done(r) /\ Status(r) = 200
        /\ req[r].ops = CachePcs
        /\ lock = NoReq

\* r is an autocomplete request whose handler ran
AcRan(r) == Started(r) /\ req[r].args.query # <<>>

\* C20: an autocomplete answered 200 after its own upstream call has stored the
\* list it returned; its cache_set leaves that list, also an empty one, under
\* its key with expiry = reading + TTL; its cache_get answers 200 with the
\* stored list and no upstream call exactly when an unexpired entry is stored
\* under its key, also an empty list, and issues the call otherwise; two
\* requests have one key exactly when their limits are equal and their queries
\* equal up to letter case.
C20_AutocompleteCachesEmpty ==
    /\ [](\A r \in Reqs :
            (AcRan(r) /\ Done(r) /\ req[r].status = 200 /\ req[r].calls = 1)
              => "ac_set" \in req[r].ops)
    /\ [](\A r \in Reqs : \A q \in Reqs :
            (AcRan(r) /\ AcRan(q))
              => ( AcKeyOf(req[r]) = AcKeyOf(req[q])
                     <=> /\ req[r].args.limit = req[q].args.limit
                         /\ Lower(req[r].args.query) = Lower(req[q].args.query) ))
    /\ [][\A r \in Reqs :
             /\ (req[r].pc = "ac_set" /\ req'[r].pc # "ac_set")
                   => /\ AcKeyOf(req[r]) \in DOMAIN cache'
                      /\ cache'[AcKeyOf(req[r])] =
                           [value |-> Val(req[r].simplified),
                            expires_at |-> clock + CACHE_TTL_SECONDS]
                      /\ req'[r].status = 200 /\ req'[r].body = req[r].simplified
             /\ (req[r].pc = "ac_get" /\ req'[r].pc # "ac_get")
                   => IF Live(cache, AcKeyOf(req[r]), clock)
                      THEN /\ req'[r].pc = "done" /\ req'[r].status = 200
                           /\ req'[r].body = Some(cache[AcKeyOf(req[r])].value)
                           /\ req'[r].calls = 0
                      ELSE /\ req'[r].pc = "ac_fetch"
                           /\ req'[r].calls = 1 ]_vars

\* "P" got an empty answer from the provider and stored it; "p" with the same
\* limit was answered the empty list from the cache, with no upstream call
C20_Witness ==
    \E r \in Reqs : \E q \in Reqs :
        /\ AcRan(r) /\ AcRan(q)
        /\ req[q].args = AcArgs(<<"P">>, 6) /\ req[r].args = AcArgs(<<"p">>, 6)
        /\ Done(q) /\ req[q].calls = 1 /\ req[q].body = Some(<<>>)
        /\ Done(r) /\ req[r].calls = 0 /\ req[r].ops = {"ac_get"}
        /\ req[r].status = 200 /\ req[r].body = Some(<<>>)
        /\ AcKey(<<"P">>, 3) \notin DOMAIN cache

====
